---- MODULE Spec2Model ----
(***************************************************************************)
(* A model of dockerize/scripts/analyze_repo.py: the six runtime           *)
(* classifiers, the service scanner, the port scanner and analyze_repo,    *)
(* which runs them over one repository on disk.                            *)
(*                                                                         *)
(* A repository is a record                                                *)
(*   kind : "missing" | "file" | "dir"   what the input path names         *)
(*   pkg  : the bytes of package.json seen through open()/json.load()      *)
(*   fs   : the other files, a sequence of [path, st, text] in the order   *)
(*          the filesystem lists them (rglob, iterdir, glob)               *)
(* A path is [dir, stem, ext]: the directory components below the root     *)
(* and the file name split at its suffix.  A text is a sequence of lines.  *)
(* st is "ok", "ioerror" (reading raises IOError) or "badutf8" (the bytes   *)
(* are not valid UTF-8).  Regular expressions are modelled by what they     *)
(* match and capture on the lines that occur in the repositories analysed.  *)
(***************************************************************************)
EXTENDS Integers, Sequences, FiniteSets, TLC

VARIABLES
    repo,        \* the repository on disk; no action changes it
    pc,          \* position of the running analyze_repo call
    idx,         \* index of the next classifier of the detectors loop
    result,      \* the report under construction (the dict `result`)
    ran,         \* functions analyze_repo has called, in call order
    discovered,  \* identifiers in the order detected.add() received them
    portSkips,   \* paths the port scanner skipped at line 429
    svcSkips,    \* paths the service scanner skipped at line 362
    reports      \* reports returned by the completed runs, oldest first

vars == <<repo, pc, idx, result, ran, discovered, portSkips, svcSkips, reports>>

----------------------------------------------------------------------------
(* Python values *)

None == "None"

Range(s) == {s[i] : i \in 1..Len(s)}

NoDup(s) == \A i, j \in 1..Len(s) : i # j => s[i] # s[j]

\* every ordering of a finite set: what iterating a Python set can give
Perms(S) == {s \in [1..Cardinality(S) -> S] : Range(s) = S}

RECURSIVE Flatten(_)
Flatten(ss) == IF ss = <<>> THEN <<>> ELSE Head(ss) \o Flatten(Tail(ss))

\* seq with the elements of `more` that are not yet in it appended in order
RECURSIVE AppendNew(_, _)
AppendNew(seq, more) ==
    IF more = <<>> THEN seq
    ELSE AppendNew(IF Head(more) \in Range(seq) THEN seq ELSE Append(seq, Head(more)),
                   Tail(more))

----------------------------------------------------------------------------
(* Paths and the filesystem *)

Path(dir, stem, ext) == [dir |-> dir, stem |-> stem, ext |-> ext]

RootFile(stem, ext) == Path(<<>>, stem, ext)

Paths(fs) == {fs[i].path : i \in 1..Len(fs)}

\* Path.exists()
Exists(fs, p) == p \in Paths(fs)

Entry(fs, p) == fs[CHOOSE i \in 1..Len(fs) : fs[i].path = p]

\* read_text(encoding="utf-8"): the text, or the exception raised
ReadStrict(fs, p) ==
    LET e == Entry(fs, p) IN
    CASE e.st = "ioerror" -> [exc |-> "IOError", text |-> <<>>]
      [] e.st = "badutf8" -> [exc |-> "UnicodeDecodeError", text |-> <<>>]
      [] OTHER            -> [exc |-> None, text |-> e.text]

\* read_text(encoding="utf-8", errors="ignore"): undecodable bytes are dropped
ReadIgnore(e) ==
    IF e.st = "ioerror" THEN [exc |-> "IOError", text |-> <<>>]
    ELSE [exc |-> None, text |-> e.text]

\* `needle in content` for the markers the classifiers look for
Contains(text, needle) == \E i \in 1..Len(text) : text[i] = needle

\* `marker in component` for the path components that occur in the model
Occurs(marker, comp) ==
    CASE comp = "node_modules" -> marker = "node_modules"
      [] comp = "venv"         -> marker = "venv"
      [] comp = ".venv"        -> marker = "venv"
      [] comp = ".github"      -> marker = ".git"
      [] comp = "vendor"       -> marker = "vendor"
      [] OTHER                 -> FALSE

\* `marker in str(file_path)`: a substring test on the whole path
InPathStr(marker, p) ==
    \/ \E i \in 1..Len(p.dir) : Occurs(marker, p.dir[i])
    \/ Occurs(marker, p.stem)

----------------------------------------------------------------------------
(* detect_node_project *)

\* the elif chain that picks the framework from the keys of deps
NodeFrameworkSwapped(deps) ==
    IF "react" \in deps THEN "react"
    ELSE IF "next" \in deps THEN "nextjs"
    ELSE IF "nuxt" \in deps THEN "nuxt"
    ELSE IF "@angular/core" \in deps THEN "angular"
    ELSE IF "vue" \in deps THEN "vue"
    ELSE IF "express" \in deps THEN "express"
    ELSE IF "fastify" \in deps THEN "fastify"
    ELSE IF "koa" \in deps THEN "koa"
    ELSE IF "hono" \in deps THEN "hono"
    ELSE None

NodeFramework(deps) ==
    IF "next" \in deps THEN "nextjs"
    ELSE IF "nuxt" \in deps THEN "nuxt"
    ELSE IF "@angular/core" \in deps THEN "angular"
    ELSE IF "vue" \in deps THEN "vue"
    ELSE IF "react" \in deps THEN "react"
    ELSE IF "express" \in deps THEN "express"
    ELSE IF "fastify" \in deps THEN "fastify"
    ELSE IF "koa" \in deps THEN "koa"
    ELSE IF "hono" \in deps THEN "hono"
    ELSE None

NodePackageManager(fs) ==
    IF Exists(fs, RootFile("pnpm-lock", ".yaml")) THEN "pnpm"
    ELSE IF Exists(fs, RootFile("yarn", ".lock")) THEN "yarn"
    ELSE IF Exists(fs, RootFile("bun", ".lockb")) THEN "bun"
    ELSE "npm"

\* what open() + json.load() do with the bytes of package.json
LoadPackageJson(pkg) ==
    CASE pkg.st = "ioerror" -> "IOError"
      [] pkg.st = "badutf8" -> "UnicodeDecodeError"
      [] pkg.st = "badjson" -> "JSONDecodeError"
      [] OTHER              -> None

\* {**pkg.get("dependencies", {}), **pkg.get("devDependencies", {})}
MergeDeps(pkg) ==
    CASE pkg.st = "nonobject" -> [exc |-> "AttributeError", keys |-> <<>>]
      [] pkg.st = "baddeps"   -> [exc |-> "TypeError", keys |-> <<>>]
      [] OTHER -> [exc |-> None,
                   keys |-> AppendNew(pkg.dependencies, pkg.devDependencies)]

\* what a classifier call does: return None, return a dict, or raise
Absent == [exc |-> None, hit |-> FALSE, val |-> [runtime |-> None]]

Returned(val) == [exc |-> None, hit |-> TRUE, val |-> val]

Raised(exc) == [exc |-> exc, hit |-> FALSE, val |-> [runtime |-> None]]

NodeResult(r, deps) ==
    [runtime         |-> "node",
     framework       |-> NodeFramework(Range(deps)),
     package_manager |-> NodePackageManager(r.fs),
     scripts         |-> r.pkg.scripts,
     typescript      |-> \/ "typescript" \in Range(deps)
                         \/ Exists(r.fs, RootFile("tsconfig", ".json")),
     node_version    |-> r.pkg.node,
     dependencies    |-> deps]

detect_node_project(r) ==
    IF r.pkg.st = "absent" THEN {Absent}
    ELSE IF LoadPackageJson(r.pkg) \in {"IOError", "JSONDecodeError"}
         THEN {Absent}
    ELSE IF LoadPackageJson(r.pkg) # None THEN {Raised(LoadPackageJson(r.pkg))}
    ELSE IF MergeDeps(r.pkg).exc # None THEN {Raised(MergeDeps(r.pkg).exc)}
    ELSE {Returned(NodeResult(r, MergeDeps(r.pkg).keys))}

----------------------------------------------------------------------------
(* detect_python_project *)

\* the captures of a regex over the lines of a text, given the capture (or None)
\* of each line: the lines without a match are left out
CapturesOf(perLine) == SelectSeq(perLine, LAMBDA c : c # None)

\* the capture of ^\s*["']?([a-zA-Z0-9_-]+) on one line
PyprojectIdent(line) ==
    CASE line = "Django==4.2"      -> "Django"
      [] line = "flask"            -> "flask"
      [] line = "numpy>=1.26"      -> "numpy"
      [] line = "\"fastapi\","     -> "fastapi"
      [] line = "name = \"demo\""  -> "name"
      [] OTHER                     -> None

\* strip(), skip blank and # lines, ^([a-zA-Z0-9_-]+), lower()
RequirementIdent(line) ==
    CASE line = "Django==4.2"      -> "django"
      [] line = "flask"            -> "flask"
      [] line = "numpy>=1.26"      -> "numpy"
      [] line = "name = \"demo\""  -> "name"
      [] OTHER                     -> None

\* str.lower() on the identifiers of the model
Lower(s) == IF s = "Django" THEN "django" ELSE s

\* lines 98-114: package manager and dependencies from pyproject.toml
ReadPyproject(fs) ==
    LET p == RootFile("pyproject", ".toml") IN
    IF ~Exists(fs, p) THEN [exc |-> None, pm |-> "pip", deps |-> <<>>]
    ELSE LET rd == ReadStrict(fs, p) IN
         IF rd.exc = "IOError" THEN [exc |-> None, pm |-> "pip", deps |-> <<>>]
         ELSE IF rd.exc # None THEN [exc |-> rd.exc, pm |-> "pip", deps |-> <<>>]
         ELSE [exc  |-> None,
               pm   |-> IF Contains(rd.text, "[tool.poetry]") THEN "poetry"
                        ELSE IF Contains(rd.text, "[tool.pdm]") THEN "pdm"
                        ELSE "pip",
               deps |-> CapturesOf([i \in 1..Len(rd.text) |->
                                       PyprojectIdent(rd.text[i])])]

\* lines 116-129: dependencies from requirements.txt
ReadRequirements(fs) ==
    LET p == RootFile("requirements", ".txt") IN
    IF ~Exists(fs, p) THEN [exc |-> None, deps |-> <<>>]
    ELSE LET rd == ReadStrict(fs, p) IN
         IF rd.exc = "IOError" THEN [exc |-> None, deps |-> <<>>]
         ELSE IF rd.exc # None THEN [exc |-> rd.exc, deps |-> <<>>]
         ELSE [exc  |-> None,
               deps |-> CapturesOf([i \in 1..Len(rd.text) |->
                                       RequirementIdent(rd.text[i])])]

PythonFramework(deps_lower) ==
    IF "fastapi" \in deps_lower THEN "fastapi"
    ELSE IF "django" \in deps_lower THEN "django"
    ELSE IF "flask" \in deps_lower THEN "flask"
    ELSE IF "starlette" \in deps_lower THEN "starlette"
    ELSE IF "tornado" \in deps_lower THEN "tornado"
    ELSE IF "streamlit" \in deps_lower THEN "streamlit"
    ELSE IF "gradio" \in deps_lower THEN "gradio"
    ELSE None

PythonEntryPoint(fs) ==
    IF Exists(fs, RootFile("main", ".py")) THEN "main.py"
    ELSE IF Exists(fs, RootFile("app", ".py")) THEN "app.py"
    ELSE IF Exists(fs, RootFile("run", ".py")) THEN "run.py"
    ELSE IF Exists(fs, RootFile("server", ".py")) THEN "server.py"
    ELSE IF Exists(fs, RootFile("manage", ".py")) THEN "manage.py"
    ELSE None

PythonIndicators ==
    {RootFile("requirements", ".txt"), RootFile("pyproject", ".toml"),
     RootFile("setup", ".py"), RootFile("Pipfile", ""), RootFile("poetry", ".lock")}

\* list(set(deps)) may come out in any order of the distinct names
PythonResult(fs, pm, deps, order) ==
    LET deps_lower == {Lower(d) : d \in Range(deps)} IN
    [runtime         |-> "python",
     framework       |-> PythonFramework(deps_lower),
     package_manager |-> IF Exists(fs, RootFile("Pipfile", "")) THEN "pipenv" ELSE pm,
     entry_point     |-> PythonEntryPoint(fs),
     dependencies    |-> order,
     is_ml           |-> deps_lower \cap {"torch", "tensorflow", "keras",
                                          "scikit-learn", "pandas", "numpy"} # {}]

detect_python_project(r) ==
    IF PythonIndicators \cap Paths(r.fs) = {} THEN {Absent}
    ELSE LET pp == ReadPyproject(r.fs)
             rq == ReadRequirements(r.fs)
         IN  IF pp.exc # None THEN {Raised(pp.exc)}
             ELSE IF rq.exc # None THEN {Raised(rq.exc)}
             ELSE {Returned(PythonResult(r.fs, pp.pm, pp.deps \o rq.deps, order)) :
                       order \in Perms(Range(pp.deps \o rq.deps))}

----------------------------------------------------------------------------
(* detect_go_project *)

\* the capture of ^module\s+(\S+) on one line
GoModuleName(line) == IF line = "module example.com/app" THEN "example.com/app" ELSE None

\* the capture of ^go\s+(\d+\.\d+) on one line
GoVersion(line) == IF line = "go 1.22" THEN "1.22" ELSE None

FirstOr(seq, default) == IF seq = <<>> THEN default ELSE Head(seq)

\* the first directory of cmd/, in listing order, that holds a main.go
RECURSIVE CmdEntry(_, _)
CmdEntry(fs, i) ==
    IF i > Len(fs) THEN None
    ELSE LET d == fs[i].path.dir IN
         IF /\ Len(d) >= 2
            /\ d[1] = "cmd"
            /\ Exists(fs, Path(<<"cmd", d[2]>>, "main", ".go"))
         THEN d[2]
         ELSE CmdEntry(fs, i + 1)

GoEntryPoint(fs) ==
    IF Exists(fs, RootFile("main", ".go")) THEN "."
    ELSE CmdEntry(fs, 1)

detect_go_project(r) ==
    LET p == RootFile("go", ".mod") IN
    IF ~Exists(r.fs, p) THEN {Absent}
    ELSE LET rd == ReadStrict(r.fs, p) IN
         IF rd.exc = "IOError" THEN {Absent}
         ELSE IF rd.exc # None THEN {Raised(rd.exc)}
         ELSE LET names    == [i \in 1..Len(rd.text) |-> GoModuleName(rd.text[i])]
                  versions == [i \in 1..Len(rd.text) |-> GoVersion(rd.text[i])]
              IN  {Returned([runtime     |-> "go",
                             module      |-> FirstOr(CapturesOf(names), None),
                             go_version  |-> FirstOr(CapturesOf(versions), None),
                             entry_point |-> GoEntryPoint(r.fs)])}

----------------------------------------------------------------------------
(* detect_rust_project *)

\* the capture of ^name\s*=\s*"([^"]+)" on one line
CargoName(line) == IF line = "name = \"demo\"" THEN "demo" ELSE None

detect_rust_project(r) ==
    LET p == RootFile("Cargo", ".toml") IN
    IF ~Exists(r.fs, p) THEN {Absent}
    ELSE LET rd == ReadStrict(r.fs, p) IN
         IF rd.exc = "IOError" THEN {Absent}
         ELSE IF rd.exc # None THEN {Raised(rd.exc)}
         ELSE LET names == [i \in 1..Len(rd.text) |-> CargoName(rd.text[i])]
              IN  {Returned([runtime      |-> "rust",
                             package_name |-> FirstOr(CapturesOf(names), None),
                             is_workspace |-> Contains(rd.text, "[workspace]")])}

----------------------------------------------------------------------------
(* detect_java_project *)

JavaFramework(text, gradle) ==
    IF Contains(text, "spring-boot")
       \/ (gradle /\ Contains(text, "org.springframework.boot")) THEN "spring-boot"
    ELSE IF Contains(text, "quarkus") THEN "quarkus"
    ELSE IF Contains(text, "micronaut") THEN "micronaut"
    ELSE None

detect_java_project(r) ==
    LET pom        == RootFile("pom", ".xml")
        gradle     == RootFile("build", ".gradle")
        gradle_kts == RootFile("build.gradle", ".kts")
    IN
    IF {pom, gradle, gradle_kts} \cap Paths(r.fs) = {} THEN {Absent}
    ELSE LET file == IF Exists(r.fs, pom) THEN pom
                     ELSE IF Exists(r.fs, gradle_kts) THEN gradle_kts ELSE gradle
             rd   == ReadStrict(r.fs, file)
         IN  IF rd.exc \notin {None, "IOError"} THEN {Raised(rd.exc)}
             ELSE {Returned([runtime    |-> "java",
                             build_tool |-> IF Exists(r.fs, pom) THEN "maven" ELSE "gradle",
                             framework  |-> IF rd.exc = "IOError" THEN None
                                            ELSE JavaFramework(rd.text, file # pom)])}

----------------------------------------------------------------------------
(* detect_dotnet_project *)

\* repo_path.glob("*" + ext): the root files of that suffix, in listing order
RootGlob(fs, ext) ==
    LET hits == SelectSeq(fs, LAMBDA e : e.path.dir = <<>> /\ e.path.ext = ext)
    IN  [i \in 1..Len(hits) |-> hits[i].path]

DotnetFramework(text) ==
    IF Contains(text, "Microsoft.AspNetCore") THEN "aspnet"
    ELSE IF Contains(text, "Microsoft.NET.Sdk.Web") THEN "aspnet"
    ELSE IF Contains(text, "Microsoft.NET.Sdk.Worker") THEN "worker"
    ELSE None

detect_dotnet_project(r) ==
    LET csproj_files == RootGlob(r.fs, ".csproj")
        fsproj_files == RootGlob(r.fs, ".fsproj")
        sln_files    == RootGlob(r.fs, ".sln")
    IN
    IF csproj_files = <<>> /\ fsproj_files = <<>> /\ sln_files = <<>> THEN {Absent}
    ELSE IF csproj_files = <<>> /\ fsproj_files = <<>>
         THEN {Returned([runtime |-> "dotnet", language |-> "unknown",
                         framework |-> None, project_file |-> None])}
    ELSE LET project_file == IF csproj_files # <<>> THEN csproj_files[1]
                             ELSE fsproj_files[1]
             rd == ReadStrict(r.fs, project_file)
         IN  IF rd.exc \notin {None, "IOError"} THEN {Raised(rd.exc)}
             ELSE {Returned([runtime      |-> "dotnet",
                             language     |-> IF csproj_files # <<>> THEN "csharp"
                                              ELSE "fsharp",
                             framework    |-> IF rd.exc = "IOError" THEN None
                                              ELSE DotnetFramework(rd.text),
                             project_file |-> project_file.stem])}

----------------------------------------------------------------------------
(* detect_services *)

\* the suffixes of scan_extensions (a set: its iteration order is per run)
service_scan_extensions == {".py", ".js", ".ts", ".go", ".java", ".cs", ".rb", ".php"}

config_files ==
    <<RootFile("compose", ".yml"), RootFile("compose", ".yaml"),
      RootFile("docker-compose", ".yml"), RootFile("docker-compose", ".yaml"),
      RootFile("", ".env"), RootFile(".env", ".example")>>

\* the keys of service_patterns in insertion order
ServiceIds ==
    <<"postgresql", "mysql", "mongodb", "redis", "elasticsearch",
      "rabbitmq", "kafka", "memcached", "minio">>

service_patterns(service) ==
    CASE service = "postgresql" ->
             <<"postgres://", "postgresql://", "psycopg2", "pg\\.", "PG::",
               "POSTGRES", "5432", "\"pg\"", "asyncpg">>
      [] service = "mysql" ->
             <<"mysql://", "mysql2", "pymysql", "MySql", "MYSQL", "3306">>
      [] service = "mongodb" ->
             <<"mongodb://", "mongoose", "pymongo", "MongoClient", "MONGO", "27017">>
      [] service = "redis" ->
             <<"redis://", "ioredis", "redis\\.", "Redis\\(", "REDIS", "6379">>
      [] service = "elasticsearch" ->
             <<"elasticsearch", "@elastic", "ELASTICSEARCH", "9200">>
      [] service = "rabbitmq" ->
             <<"amqp://", "amqplib", "pika", "RabbitMQ", "RABBITMQ", "5672">>
      [] service = "kafka" ->
             <<"kafka", "kafkajs", "kafka-python", "KAFKA", "9092">>
      [] service = "memcached" ->
             <<"memcached", "pylibmc", "MEMCACHED", "11211">>
      [] service = "minio" ->
             <<"minio", "MINIO", "9000">>

\* service_defaults.get(service, {}) followed by .get("image"), .get("port")
service_defaults_no_redis(service) ==
    CASE service = "postgresql" -> [image |-> "postgres:16-alpine", port |-> 5432]
      [] service = "mysql"      -> [image |-> "mysql:8", port |-> 3306]
      [] service = "mongodb"    -> [image |-> "mongo:7", port |-> 27017]
      [] service = "elasticsearch" -> [image |-> "elasticsearch:8.11.0", port |-> 9200]
      [] service = "rabbitmq"   -> [image |-> "rabbitmq:3-management-alpine", port |-> 5672]
      [] service = "kafka"      -> [image |-> "confluentinc/cp-kafka:7.5.0", port |-> 9092]
      [] service = "memcached"  -> [image |-> "memcached:1.6-alpine", port |-> 11211]
      [] service = "minio"      -> [image |-> "minio/minio:latest", port |-> 9000]
      [] OTHER                  -> [image |-> None, port |-> None]

service_defaults(service) ==
    CASE service = "postgresql" -> [image |-> "postgres:16-alpine", port |-> 5432]
      [] service = "mysql"      -> [image |-> "mysql:8", port |-> 3306]
      [] service = "mongodb"    -> [image |-> "mongo:7", port |-> 27017]
      [] service = "redis"      -> [image |-> "redis:7-alpine", port |-> 6379]
      [] service = "elasticsearch" -> [image |-> "elasticsearch:8.11.0", port |-> 9200]
      [] service = "rabbitmq"   -> [image |-> "rabbitmq:3-management-alpine", port |-> 5672]
      [] service = "kafka"      -> [image |-> "confluentinc/cp-kafka:7.5.0", port |-> 9092]
      [] service = "memcached"  -> [image |-> "memcached:1.6-alpine", port |-> 11211]
      [] service = "minio"      -> [image |-> "minio/minio:latest", port |-> 9000]
      [] OTHER                  -> [image |-> None, port |-> None]

\* re.search(pattern, line, re.IGNORECASE) on the lines of the model
Matches(pattern, line) ==
    CASE line = "DATABASE_URL=postgres://db/app" -> pattern \in {"postgres://", "POSTGRES"}
      [] line = "REDIS_PORT=6379"                -> pattern \in {"REDIS", "6379"}
      [] line = "server.listen(9000)"            -> pattern = "9000"
      [] OTHER                                   -> FALSE

ReSearch(pattern, text) == \E i \in 1..Len(text) : Matches(pattern, text[i])

\* lines 366-371: every identifier not yet detected is added at its first
\* matching pattern; k walks the keys of service_patterns
RECURSIVE ScanContent(_, _, _)
ScanContent(detected, text, k) ==
    IF k > Len(ServiceIds) THEN detected
    ELSE LET service  == ServiceIds[k]
             patterns == service_patterns(service)
             hit      == /\ service \notin Range(detected)
                         /\ \E j \in 1..Len(patterns) : ReSearch(patterns[j], text)
         IN  ScanContent(IF hit THEN Append(detected, service) ELSE detected, text, k + 1)

\* line 362: the path holds one of the five excluded markers
ServiceExcluded(p) ==
    \E m \in {"node_modules", "vendor", ".git", "__pycache__", "venv"} : InPathStr(m, p)

\* for ext in exts: for file_path in repo_path.rglob("*" + ext)
Walk(fs, extOrder) ==
    Flatten([k \in 1..Len(extOrder) |->
                 SelectSeq(fs, LAMBDA e : e.path.ext = extOrder[k])])

\* the suffixes of exts that some file has: the order of the others is not
\* observable, so only these are permuted
ExtOrders(fs, exts) == Perms({e \in exts : \E i \in 1..Len(fs) : fs[i].path.ext = e})

\* lines 359-373 over the files in walk order
RECURSIVE SourcePass(_, _)
SourcePass(files, detected) ==
    IF files = <<>> THEN detected
    ELSE LET e == Head(files) IN
         IF ServiceExcluded(e.path) \/ ReadIgnore(e).exc = "IOError"
         THEN SourcePass(Tail(files), detected)
         ELSE SourcePass(Tail(files), ScanContent(detected, ReadIgnore(e).text, 1))

\* lines 376-388 from config_files[k] on
RECURSIVE ConfigPass(_, _, _)
ConfigPass(fs, detected, k) ==
    IF k > Len(config_files) THEN [exc |-> None, detected |-> detected]
    ELSE IF ~Exists(fs, config_files[k]) THEN ConfigPass(fs, detected, k + 1)
    ELSE LET rd == ReadStrict(fs, config_files[k]) IN
         IF rd.exc = "IOError" THEN ConfigPass(fs, detected, k + 1)
         ELSE IF rd.exc # None THEN [exc |-> rd.exc, detected |-> detected]
         ELSE ConfigPass(fs, ScanContent(detected, rd.text, 1), k + 1)

\* lines 403-409 with `for service in detected` yielding the order `order`
ServiceList(order) ==
    [i \in 1..Len(order) |->
        [name  |-> order[i],
         image |-> service_defaults(order[i]).image,
         port  |-> service_defaults(order[i]).port]]

\* every outcome of detect_services: the suffix order of the walk and the
\* iteration order of the set `detected` are free
detect_services(fs) ==
    UNION {
        LET out == ConfigPass(fs, SourcePass(Walk(fs, extOrder), <<>>), 1) IN
        IF out.exc # None
        THEN {[exc |-> out.exc, services |-> <<>>, detected |-> out.detected]}
        ELSE {[exc |-> None, services |-> ServiceList(order), detected |-> out.detected] :
                  order \in Perms(Range(out.detected))}
        : extOrder \in ExtOrders(fs, service_scan_extensions)}

ServiceSkipped(fs) ==
    {fs[i].path : i \in {j \in 1..Len(fs) :
                            /\ fs[j].path.ext \in service_scan_extensions
                            /\ ServiceExcluded(fs[j].path)}}

----------------------------------------------------------------------------
(* detect_ports *)

port_scan_extensions == {".py", ".js", ".ts", ".go", ".java", ".yml", ".yaml", ".env"}

\* sys.get_int_max_str_digits(): int() refuses a longer digit string
MaxStrDigits == 4300

Huge == [i \in 1..(MaxStrDigits + 1) |-> 1]

\* re.findall(port_patterns[k], line, re.IGNORECASE): the digit strings captured;
\* the line "port=111...1" is port= followed by MaxStrDigits + 1 digits
\* port_patterns = .listen(N) | PORT[=:]N | port[=:]N | --port N | -p N
Captured(k, line) ==
    CASE line = "app.listen(8080)"     /\ k = 1        -> << <<8, 0, 8, 0>> >>
      [] line = "server.listen(9000)"  /\ k = 1        -> << <<9, 0, 0, 0>> >>
      [] line = "PORT=42"              /\ k \in {2, 3} -> << <<4, 2>> >>
      [] line = "port: 70000"          /\ k \in {2, 3} -> << <<7, 0, 0, 0, 0>> >>
      [] line = "port=111...1"         /\ k \in {2, 3} -> << Huge >>
      [] line = "REDIS_PORT=6379"      /\ k \in {2, 3} -> << <<6, 3, 7, 9>> >>
      [] line = "--port 1000"          /\ k = 4        -> << <<1, 0, 0, 0>> >>
      [] line = "-p 65535"             /\ k = 5        -> << <<6, 5, 5, 3, 5>> >>
      [] OTHER                                         -> <<>>

NumPortPatterns == 5

FindAll(k, text) == Flatten([i \in 1..Len(text) |-> Captured(k, text[i])])

RECURSIVE DigitsValue(_)
DigitsValue(d) ==
    IF d = <<>> THEN 0 ELSE 10 * DigitsValue(SubSeq(d, 1, Len(d) - 1)) + d[Len(d)]

\* int(match)
PyInt(d) ==
    IF Len(d) > MaxStrDigits THEN [exc |-> "ValueError", val |-> 0]
    ELSE [exc |-> None, val |-> DigitsValue(d)]

\* line 437
InPortRange(port) == 1000 <= port /\ port <= 65535

\* lines 433-440 for one file: the captures pattern by pattern; the first
\* ValueError leaves the try block and the rest of the file is not processed
RECURSIVE AddPorts(_, _)
AddPorts(ports, caps) ==
    IF caps = <<>> THEN ports
    ELSE LET n == PyInt(Head(caps)) IN
         IF n.exc # None THEN ports
         ELSE AddPorts(IF InPortRange(n.val) THEN ports \cup {n.val} ELSE ports,
                       Tail(caps))

FileCaptures(text) == Flatten([k \in 1..NumPortPatterns |-> FindAll(k, text)])

\* line 429: the path holds one of the four excluded markers
PortExcluded(p) ==
    \E m \in {"node_modules", "vendor", ".git", "__pycache__"} : InPathStr(m, p)

\* lines 427-440 over the files in walk order
RECURSIVE PortPass(_, _)
PortPass(files, ports) ==
    IF files = <<>> THEN ports
    ELSE LET e == Head(files) IN
         IF PortExcluded(e.path) \/ ReadIgnore(e).exc = "IOError"
         THEN PortPass(Tail(files), ports)
         ELSE PortPass(Tail(files), AddPorts(ports, FileCaptures(ReadIgnore(e).text)))

\* sorted(ports)
RECURSIVE Sorted(_)
Sorted(S) ==
    IF S = {} THEN <<>>
    ELSE LET m == CHOOSE x \in S : \A y \in S : x <= y
         IN  <<m>> \o Sorted(S \ {m})

\* every outcome of detect_ports; the suffix order of the walk is free
detect_ports(fs) ==
    {Sorted(PortPass(Walk(fs, extOrder), {})) :
         extOrder \in ExtOrders(fs, port_scan_extensions)}

PortSkipped(fs) ==
    {fs[i].path : i \in {j \in 1..Len(fs) :
                            /\ fs[j].path.ext \in port_scan_extensions
                            /\ PortExcluded(fs[j].path)}}

----------------------------------------------------------------------------
(* analyze_repo *)

\* str(Path(repo_path).resolve())
RepoPath == "/work/app"

\* lines 449-453: the message of the error document, None for a directory
PathErrorNoDirCheck(kind) ==
    IF kind = "missing" THEN "Path does not exist: " ELSE None

PathError(kind) ==
    IF kind = "missing" THEN "Path does not exist: "
    ELSE IF kind # "dir" THEN "Path is not a directory: "
    ELSE None

\* the list `detectors`
detectors_go_first ==
    <<"detect_go_project", "detect_python_project", "detect_node_project",
      "detect_rust_project", "detect_java_project", "detect_dotnet_project">>

detectors ==
    <<"detect_node_project", "detect_python_project", "detect_go_project",
      "detect_rust_project", "detect_java_project", "detect_dotnet_project">>

\* detector(repo_path): every outcome of the call
Detect(name, r) ==
    CASE name = "detect_node_project"   -> detect_node_project(r)
      [] name = "detect_python_project" -> detect_python_project(r)
      [] name = "detect_go_project"     -> detect_go_project(r)
      [] name = "detect_rust_project"   -> detect_rust_project(r)
      [] name = "detect_java_project"   -> detect_java_project(r)
      [] name = "detect_dotnet_project" -> detect_dotnet_project(r)

\* result.update(detected)
Update(res, d) ==
    [k \in DOMAIN res \cup DOMAIN d |-> IF k \in DOMAIN d THEN d[k] ELSE res[k]]

\* lines 486-490
ExistingDocker(fs) ==
    [dockerfile     |-> Exists(fs, RootFile("Dockerfile", "")),
     docker_compose |-> \/ Exists(fs, RootFile("compose", ".yml"))
                        \/ Exists(fs, RootFile("compose", ".yaml"))
                        \/ Exists(fs, RootFile("docker-compose", ".yml"))
                        \/ Exists(fs, RootFile("docker-compose", ".yaml")),
     dockerignore   |-> Exists(fs, RootFile("", ".dockerignore"))]

\* lines 447-461: the path checks and the empty report
Validate ==
    /\ pc = "start"
    /\ IF PathError(repo.kind) # None
       THEN /\ result' = [error |-> <<PathError(repo.kind), RepoPath>>]
            /\ pc' = "done"
            /\ reports' = Append(reports, result')
       ELSE /\ result' = [path |-> RepoPath, name |-> "app", runtime |-> None,
                          services |-> <<>>, ports |-> <<>>]
            /\ pc' = "detect"
            /\ reports' = reports
    /\ idx' = 1
    /\ UNCHANGED <<repo, ran, discovered, portSkips, svcSkips>>

\* lines 473-477: one iteration of the detectors loop
RunDetector ==
    /\ pc = "detect"
    /\ \E d \in Detect(detectors[idx], repo) :
          /\ ran' = Append(ran, detectors[idx])
          /\ IF d.exc # None
             THEN pc' = "raised" /\ UNCHANGED <<result, idx>>
             ELSE IF d.hit
             THEN /\ result' = Update(result, d.val)
                  /\ pc' = "services"
                  /\ idx' = idx
             ELSE /\ idx' = idx + 1
                  /\ pc' = IF idx = Len(detectors) THEN "services" ELSE "detect"
                  /\ result' = result
    /\ UNCHANGED <<repo, discovered, portSkips, svcSkips, reports>>

\* line 480
RunServices ==
    /\ pc = "services"
    /\ \E o \in detect_services(repo.fs) :
          /\ discovered' = o.detected
          /\ IF o.exc # None
             THEN pc' = "raised" /\ result' = result
             ELSE pc' = "ports" /\ result' = [result EXCEPT !.services = o.services]
    /\ ran' = Append(ran, "detect_services")
    /\ svcSkips' = ServiceSkipped(repo.fs)
    /\ UNCHANGED <<repo, idx, portSkips, reports>>

\* line 483
RunPorts ==
    /\ pc = "ports"
    /\ \E ports \in detect_ports(repo.fs) :
          result' = [result EXCEPT !.ports = ports]
    /\ pc' = "docker"
    /\ ran' = Append(ran, "detect_ports")
    /\ portSkips' = PortSkipped(repo.fs)
    /\ UNCHANGED <<repo, idx, discovered, svcSkips, reports>>

\* lines 486-492
ProbeDocker ==
    /\ pc = "docker"
    /\ result' = Update(result, [existing_docker |-> ExistingDocker(repo.fs)])
    /\ pc' = "done"
    /\ reports' = Append(reports, result')
    /\ UNCHANGED <<repo, idx, ran, discovered, portSkips, svcSkips>>

\* number of analyze_repo calls made on the repository
MaxRuns == 2

\* main() run again on the unmodified repository
Rerun ==
    /\ pc = "done"
    /\ Len(reports) < MaxRuns
    /\ pc' = "start"
    /\ idx' = 1
    /\ result' = <<>>
    /\ ran' = <<>>
    /\ discovered' = <<>>
    /\ portSkips' = {}
    /\ svcSkips' = {}
    /\ UNCHANGED <<repo, reports>>

Next == Validate \/ RunDetector \/ RunServices \/ RunPorts \/ ProbeDocker \/ Rerun

Fresh ==
    /\ pc = "start"
    /\ idx = 1
    /\ result = <<>>
    /\ ran = <<>>
    /\ discovered = <<>>
    /\ portSkips = {}
    /\ svcSkips = {}
    /\ reports = <<>>

----------------------------------------------------------------------------
(* The repositories analysed *)

File(path, st, text) == [path |-> path, st |-> st, text |-> text]

\* the subsets of S of at most n elements
RECURSIVE UpTo(_, _)
UpTo(S, n) ==
    IF n = 0 THEN {{}}
    ELSE UpTo(S, n - 1) \cup {T \cup {x} : T \in UpTo(S, n - 1), x \in S}

\* the subsequences of cat of at most n elements, in the order of cat
Pick(cat, n) ==
    {[i \in 1..Cardinality(S) |-> cat[Sorted(S)[i]]] : S \in UpTo(1..Len(cat), n)}

DistinctPaths(fs) == \A i, j \in 1..Len(fs) : i # j => fs[i].path # fs[j].path

PkgAbsent ==
    [st |-> "absent", dependencies |-> <<>>, devDependencies |-> <<>>,
     scripts |-> <<>>, node |-> None]

Pkg(st, dependencies, devDependencies) ==
    [st |-> st, dependencies |-> dependencies, devDependencies |-> devDependencies,
     scripts |-> <<"start">>, node |-> ">=18"]

\* a package.json in each condition open()/json.load()/dict access can meet
PkgSamples ==
    {PkgAbsent, Pkg("ok", <<"react", "next">>, <<"typescript">>)}
    \cup {Pkg(st, <<>>, <<>>) :
              st \in {"ioerror", "badjson", "badutf8", "nonobject", "baddeps"}}

GoModText == <<"module example.com/app", "go 1.22">>

\* manifests and other root files, in listing order
ManifestCatalog ==
    <<File(RootFile("go", ".mod"), "ok", GoModText),
      File(RootFile("go", ".mod"), "ioerror", <<>>),
      File(RootFile("go", ".mod"), "badutf8", <<>>),
      File(RootFile("requirements", ".txt"), "ok",
           <<"Django==4.2", "numpy>=1.26", "# pinned">>),
      File(RootFile("requirements", ".txt"), "badutf8", <<>>),
      File(RootFile("pyproject", ".toml"), "ok", <<"[tool.poetry]", "\"fastapi\",">>),
      File(RootFile("pyproject", ".toml"), "ioerror", <<>>),
      File(RootFile("Pipfile", ""), "ok", <<>>),
      File(RootFile("Cargo", ".toml"), "ok", <<"[package]", "name = \"demo\"">>),
      File(RootFile("Cargo", ".toml"), "badutf8", <<>>),
      File(RootFile("pom", ".xml"), "ok", <<"spring-boot">>),
      File(RootFile("build", ".gradle"), "ok", <<"quarkus">>),
      File(RootFile("build.gradle", ".kts"), "ok", <<"org.springframework.boot">>),
      File(RootFile("app", ".csproj"), "ok", <<"Microsoft.NET.Sdk.Web">>),
      File(RootFile("lib", ".fsproj"), "badutf8", <<>>),
      File(RootFile("all", ".sln"), "ok", <<>>),
      File(RootFile("main", ".go"), "ok", <<>>),
      File(Path(<<"cmd", "api">>, "main", ".go"), "ok", <<>>),
      File(Path(<<"cmd", "worker">>, "main", ".go"), "ok", <<>>),
      File(RootFile("compose", ".yml"), "ok", <<"REDIS_PORT=6379">>),
      File(RootFile("compose", ".yml"), "badutf8", <<"REDIS_PORT=6379">>),
      File(RootFile("Dockerfile", ""), "ok", <<>>),
      File(RootFile("yarn", ".lock"), "ok", <<>>),
      File(RootFile("tsconfig", ".json"), "ok", <<>>),
      File(RootFile("main", ".py"), "ok", <<"app.listen(8080)">>)>>

\* files of the repositories of Spec
MaxRootFiles == 2

Repos ==
    {[kind |-> k, pkg |-> PkgAbsent, fs |-> <<>>] : k \in {"missing", "file"}}
    \cup {[kind |-> "dir", pkg |-> pkg, fs |-> fs] :
              pkg \in PkgSamples,
              fs \in {f \in Pick(ManifestCatalog, MaxRootFiles) : DistinctPaths(f)}}

Init == repo \in Repos /\ Fresh

Spec == Init /\ [][Next]_vars

\* names a package.json declares
NodeNames ==
    <<"next", "nuxt", "@angular/core", "vue", "react", "express", "fastify",
      "koa", "hono", "typescript">>

\* keys of "dependencies" and of "devDependencies" of the repositories of SpecNode
MaxDeps == 2

MaxDevDeps == 1

NodeCatalog ==
    <<File(RootFile("go", ".mod"), "ok", GoModText),
      File(RootFile("tsconfig", ".json"), "ok", <<>>),
      File(RootFile("yarn", ".lock"), "ok", <<>>)>>

NodeRepos ==
    {[kind |-> "dir", pkg |-> Pkg("ok", deps, dev), fs |-> fs] :
         deps \in Pick(NodeNames, MaxDeps),
         dev \in Pick(NodeNames, MaxDevDeps),
         fs \in Pick(NodeCatalog, 1)}

InitNode == repo \in NodeRepos /\ Fresh

SpecNode == InitNode /\ [][Next]_vars

ScanPaths ==
    <<Path(<<"src">>, "app", ".py"),
      Path(<<"venv", "lib">>, "site", ".py"),
      Path(<<"node_modules", "pkg">>, "index", ".js"),
      Path(<<"src">>, "Program", ".cs"),
      Path(<<"deploy">>, "values", ".yml"),
      RootFile("compose", ".yml")>>

ScanTexts ==
    <<<<"app.listen(8080)", "PORT=42", "port: 70000">>,
      <<"port=111...1", "--port 1000", "-p 65535">>,
      <<"app.listen(8080)", "port=111...1", "REDIS_PORT=6379">>,
      <<"DATABASE_URL=postgres://db/app", "REDIS_PORT=6379",
        "DATABASE_URL=postgres://db/app">>,
      <<"server.listen(9000)", "PORT=42">>,
      <<"--port 1000", "-p 65535">>>>

\* every path with every text, and unreadable
ScanCatalog ==
    Flatten([i \in 1..Len(ScanPaths) |->
                [j \in 1..Len(ScanTexts) |-> File(ScanPaths[i], "ok", ScanTexts[j])]
                \o <<File(ScanPaths[i], "ioerror", <<>>)>>])

\* files of the repositories of SpecScan
MaxFiles == 2

ScanRepos ==
    {[kind |-> "dir", pkg |-> PkgAbsent, fs |-> fs] :
         fs \in {f \in Pick(ScanCatalog, MaxFiles) : DistinctPaths(f)}}

InitScan == repo \in ScanRepos /\ Fresh

SpecScan == InitScan /\ [][Next]_vars

----------------------------------------------------------------------------
(* Properties *)

Reported == pc \in {"services", "ports", "docker", "done"} /\ repo.kind = "dir"

\* the order the classifiers are to be tried in
ClassifierOrder ==
    <<"detect_node_project", "detect_python_project", "detect_go_project",
      "detect_rust_project", "detect_java_project", "detect_dotnet_project">>

ClassifiersRan == SelectSeq(ran, LAMBDA f : f \in Range(ClassifierOrder))

Matching(name) == \E d \in Detect(name, repo) : d.hit

BaseKeys == {"path", "name", "runtime", "services", "ports", "existing_docker"}

ValidGoMod ==
    \E i \in 1..Len(repo.fs) :
        repo.fs[i].path = RootFile("go", ".mod") /\ repo.fs[i].st = "ok"

\* C1: the classifiers are called in the order Node, Python, Go, Rust, Java,
\* .NET; once the loop is over the report holds exactly the fields of the first
\* classifier of that order that matches, that classifier was the last one
\* called, and runtime is None only if all six were called and none matched; a
\* repository with a valid package.json and a valid go.mod is reported as node.
C1_FirstMatchWins ==
    /\ \A i \in 1..Len(ClassifiersRan) : ClassifiersRan[i] = ClassifierOrder[i]
    /\ Reported =>
         LET first == {i \in 1..Len(ClassifierOrder) :
                          /\ Matching(ClassifierOrder[i])
                          /\ \A j \in 1..(i - 1) : ~Matching(ClassifierOrder[j])}
         IN  IF first = {}
             THEN /\ result.runtime = None
                  /\ ClassifiersRan = ClassifierOrder
                  /\ DOMAIN result \subseteq BaseKeys
             ELSE \A i \in first :
                     /\ Len(ClassifiersRan) = i
                     /\ \E d \in Detect(ClassifierOrder[i], repo) :
                           /\ d.hit
                           /\ DOMAIN result \ BaseKeys = DOMAIN d.val \ BaseKeys
                           /\ \A k \in DOMAIN d.val : result[k] = d.val[k]
    /\ (Reported /\ repo.pkg.st = "ok" /\ ValidGoMod) => result.runtime = "node"

\* C1 witness: a finished report on a repository holding a valid package.json
\* and a valid go.mod, classified by the Node classifier alone
C1_Witness ==
    /\ pc = "done"
    /\ repo.pkg.st = "ok"
    /\ ValidGoMod
    /\ result.runtime = "node"
    /\ ran = <<"detect_node_project", "detect_services", "detect_ports">>

\* C2: on a directory, analyze_repo never raises, whatever the files hold
C2_NeverRaises == repo.kind = "dir" => pc # "raised"

\* C3: two runs on the same unmodified repository return identical reports
C3_Deterministic == Len(reports) >= 2 => reports[1] = reports[2]

ServiceNames == [i \in 1..Len(result.services) |-> result.services[i].name]

\* C4: every identifier of the pattern table has defaults; in a report the
\* service names are pairwise distinct and every service carries a non-null
\* image and port, postgresql those of postgres:16-alpine and 5432
C4_ServicesDistinctWithDefaults ==
    /\ \A i \in 1..Len(ServiceIds) : service_defaults(ServiceIds[i]).image # None
    /\ (pc \in {"ports", "docker", "done"} /\ repo.kind = "dir") =>
         /\ NoDup(ServiceNames)
         /\ \A i \in 1..Len(result.services) :
               LET s == result.services[i] IN
               /\ s.image # None
               /\ s.port \in 1..65535
               /\ s.name = "postgresql" =>
                     s.image = "postgres:16-alpine" /\ s.port = 5432

PostgresLine == "DATABASE_URL=postgres://db/app"

\* C4 witness: two scanned files each hold the postgres URL, one of them twice,
\* and the finished report lists postgresql once, with its defaults
C4_Witness ==
    /\ pc = "done"
    /\ \E i, j \in 1..Len(repo.fs) :
          /\ i # j
          /\ \A k \in {i, j} :
                /\ repo.fs[k].path.ext \in service_scan_extensions
                /\ ~ServiceExcluded(repo.fs[k].path)
                /\ repo.fs[k].st = "ok"
                /\ Contains(repo.fs[k].text, PostgresLine)
    /\ Cardinality({i \in 1..Len(result.services) :
                       result.services[i].name = "postgresql"}) = 1
    /\ Len(result.services) = 2
    /\ \E i \in 1..Len(result.services) :
          result.services[i] =
              [name |-> "postgresql", image |-> "postgres:16-alpine", port |-> 5432]

PortsDone == pc \in {"docker", "done"} /\ repo.kind = "dir"

\* the in-range values of the well-formed captures of a text
GoodCaptures(text) ==
    {DigitsValue(c) : c \in {d \in Range(FileCaptures(text)) :
                                /\ Len(d) <= MaxStrDigits
                                /\ DigitsValue(d) >= 1000
                                /\ DigitsValue(d) <= 65535}}

NoMarker(p) ==
    \A m \in {"node_modules", "vendor", ".git", "__pycache__", "venv"} : ~InPathStr(m, p)

\* C5: the ports list is strictly ascending, holds only values of
\* [1000, 65535], and holds every in-range value captured in a readable file of
\* a scanned suffix outside the excluded directories
C5_PortsSortedInRange ==
    PortsDone =>
      /\ \A i \in 1..Len(result.ports) :
            /\ result.ports[i] >= 1000
            /\ result.ports[i] <= 65535
            /\ i > 1 => result.ports[i - 1] < result.ports[i]
      /\ \A i \in 1..Len(repo.fs) :
            (/\ repo.fs[i].path.ext \in port_scan_extensions
             /\ NoMarker(repo.fs[i].path)
             /\ repo.fs[i].st = "ok")
            => GoodCaptures(repo.fs[i].text) \subseteq Range(result.ports)

\* C6: on a missing path or a non-directory analyze_repo does not raise, calls
\* no classifier and no scanner, and returns a document whose only field is
\* error, with the message for that kind of path
C6_InvalidPathError ==
    repo.kind # "dir" =>
      /\ pc \in {"start", "done"}
      /\ ran = <<>>
      /\ pc = "done" =>
           /\ DOMAIN result = {"error"}
           /\ result.error = <<IF repo.kind = "missing" THEN "Path does not exist: "
                                ELSE "Path is not a directory: ", RepoPath>>

\* C6 witness: the call on a regular file has returned the error document
C6_Witness ==
    /\ pc = "done"
    /\ repo.kind = "file"
    /\ result = [error |-> <<"Path is not a directory: ", RepoPath>>]
    /\ reports = <<result>>

\* C7: the services list is in discovery order
C7_ServicesInDiscoveryOrder ==
    (pc \in {"ports", "docker", "done"} /\ repo.kind = "dir") =>
        ServiceNames = discovered

BothScan == service_scan_extensions \cap port_scan_extensions

\* C8: a file both scanners visit is skipped by the port scanner exactly when
\* the service scanner skips it, and no reported port comes only from files
\* under a virtual-environment directory
C8_SameExclusion ==
    PortsDone =>
      /\ \A i \in 1..Len(repo.fs) :
            repo.fs[i].path.ext \in BothScan =>
               (repo.fs[i].path \in portSkips <=> repo.fs[i].path \in svcSkips)
      /\ \A v \in Range(result.ports) :
            \E i \in 1..Len(repo.fs) :
               /\ ~InPathStr("venv", repo.fs[i].path)
               /\ v \in GoodCaptures(repo.fs[i].text)

\* C9: a malformed capture costs nothing else: every well-formed in-range
\* capture of every file the port scanner reads is in the result
C9_MalformedCaptureOnlyDiscarded ==
    PortsDone =>
      \A i \in 1..Len(repo.fs) :
         (/\ repo.fs[i].path.ext \in port_scan_extensions
          /\ ~PortExcluded(repo.fs[i].path)
          /\ ReadIgnore(repo.fs[i]).exc = None
          /\ \E c \in Range(FileCaptures(repo.fs[i].text)) : Len(c) > MaxStrDigits)
         => GoodCaptures(repo.fs[i].text) \subseteq Range(result.ports)

\* the framework names in priority order, with the value reported for each
FrameworkPriority ==
    <<<<"next", "nextjs">>, <<"nuxt", "nuxt">>, <<"@angular/core", "angular">>,
      <<"vue", "vue">>, <<"react", "react">>, <<"express", "express">>,
      <<"fastify", "fastify">>, <<"koa", "koa">>, <<"hono", "hono">>>>

DeclaredKeys == Range(repo.pkg.dependencies) \cup Range(repo.pkg.devDependencies)

\* C10: for a valid package.json the reported framework is that of the first
\* name of the priority list among the keys of dependencies and
\* devDependencies, and None when no name of the list is a key
C10_NodeFrameworkPriority ==
    (Reported /\ repo.pkg.st = "ok") =>
        LET present == {i \in 1..Len(FrameworkPriority) :
                           FrameworkPriority[i][1] \in DeclaredKeys}
        IN  /\ result.runtime = "node"
            /\ IF present = {} THEN result.framework = None
               ELSE \A i \in present :
                       (\A j \in present : i <= j) =>
                           result.framework = FrameworkPriority[i][2]

\* C10 witness: next and react are both declared and the finished report gives
\* nextjs
C10_Witness ==
    /\ pc = "done"
    /\ repo.pkg.st = "ok"
    /\ {"next", "react"} \subseteq DeclaredKeys
    /\ result.framework = "nextjs"

====
